---- MODULE Spec2Model ----
(***************************************************************************)
(* State-machine model of the scolendar scheduling API (bpp_api):          *)
(* classrooms, subjects, teacher assignments and occupancies, and the      *)
(* request handlers of src/scolendar/viewsets that create, update, delete  *)
(* and list them.  Authentication is outside the model: every request      *)
(* carries the token of a staff user.  A handler whose exception is caught *)
(* by none of its except clauses ends with HTTP 500, written ServerError.  *)
(***************************************************************************)
EXTENDS Integers, Sequences, FiniteSets, TLC

VARIABLES
    classrooms,        \* ids of the stored Classroom rows
    subjects,          \* stored Subject rows: id -> id of the owning class
    subject_teachers,  \* stored SubjectTeacher rows [id, teacher, subject, in_charge]
    occupancies,       \* stored Occupancy rows, in id order (row i has id i)
    inflight,          \* per worker: the Occupancy object built and not yet saved
    response           \* code of the response to the last request

vars == <<classrooms, subjects, subject_teachers, occupancies, inflight, response>>

store == <<classrooms, subjects, subject_teachers, occupancies>>

-----------------------------------------------------------------------------
(* Bounds of the model *)

MaxOccupancies == 2   \* rows the occupancy table may hold
MaxBatch == 2         \* ids in the body of one batch request
DayLength == 2        \* timestamps per calendar day
DaysPerMonth == 2     \* calendar days per month
MaxSubjects == 3      \* highest id a Subject row may get
MaxAssignments == 6   \* highest id a SubjectTeacher row may get

ClassroomIds == {1, 2}
SubjectIds == {1, 2}
ClassIds == {1, 2}
TeacherIds == {1, 2, 3}
Workers == {1, 2}
Timestamps == {0, 1, 2}
Names == {"n1", "n2"}

\* ids a request may carry: 0 is the id of no row
RequestClassroomIds == {0} \cup ClassroomIds
RequestSubjectIds == {0} \cup SubjectIds
RequestOccupancyIds == 0..MaxOccupancies
RequestTeacherIds == {0} \cup TeacherIds
RequestClassIds == {0} \cup ClassIds

NoTeacher == 0
NoGroup == 0
NoSubject == 0
Idle == [idle |-> TRUE]

-----------------------------------------------------------------------------
(* The Occupancy row *)

\* the row OccupancyCreationSerializer.save builds: teacher and group_number
\* are not passed and keep the column defaults, deleted starts false
NewOccupancy(classroom_id, subject_id, data) ==
    [ classroom      |-> classroom_id,
      subject        |-> subject_id,
      teacher        |-> NoTeacher,
      group_number   |-> NoGroup,
      start_datetime |-> data.start,
      duration       |-> data.end - data.start,
      name           |-> data.name,
      occupancy_type |-> data.occupancy_type,
      deleted        |-> FALSE ]

end_datetime(o) == o.start_datetime + o.duration

OccupancyIds == 1..Len(occupancies)

\* Occupancy.objects.get(id=...): the default manager also finds deleted rows
OccupancyExists(id) == id \in OccupancyIds

-----------------------------------------------------------------------------
(* POST /subjects/{id}/occupancies *)

\* outcome of the two lookups of OccupancyCreationSerializer.save
CreateOutcome(subject_id, data) ==
    IF data.classroom_id \notin classrooms THEN "InvalidID"
    ELSE IF subject_id \notin DOMAIN subjects THEN "InvalidID"
    ELSE "success"

\* the row is saved as soon as the classroom is found, before the subject lookup
SubjectOccupancyPost_SaveFirst(subject_id, data) ==
    /\ response' = CreateOutcome(subject_id, data)
    /\ IF data.classroom_id \in classrooms
       THEN /\ Len(occupancies) < MaxOccupancies
            /\ occupancies' = Append(occupancies,
                                NewOccupancy(data.classroom_id, subject_id, data))
       ELSE UNCHANGED occupancies
    /\ UNCHANGED <<classrooms, subjects, subject_teachers, inflight>>

\* the row is built from subject_id as given, without the lookup of the subject
SubjectOccupancyPost_NoSubjectLookup(subject_id, data) ==
    /\ IF data.classroom_id \in classrooms
       THEN /\ Len(occupancies) < MaxOccupancies
            /\ occupancies' = Append(occupancies,
                                NewOccupancy(data.classroom_id, subject_id, data))
            /\ response' = "success"
       ELSE /\ UNCHANGED occupancies
            /\ response' = "InvalidID"
    /\ UNCHANGED <<classrooms, subjects, subject_teachers, inflight>>

SubjectOccupancyPost(subject_id, data) ==
    /\ response' = CreateOutcome(subject_id, data)
    /\ IF CreateOutcome(subject_id, data) = "success"
       THEN /\ Len(occupancies) < MaxOccupancies
            /\ occupancies' = Append(occupancies,
                                NewOccupancy(data.classroom_id, subject_id, data))
       ELSE UNCHANGED occupancies
    /\ UNCHANGED <<classrooms, subjects, subject_teachers, inflight>>

-----------------------------------------------------------------------------
(* PUT /occupancies/{id} *)

HasKey(data, k) == k \in DOMAIN data

PutOutcome(id, data) ==
    IF ~OccupancyExists(id) THEN "InvalidID"
    \* Classroom.DoesNotExist is not Class.DoesNotExist: nothing catches it
    ELSE IF HasKey(data, "classroom_id") /\ data["classroom_id"] \notin classrooms
         THEN "ServerError"
    \* data['end'] - occupancy.start_datetime: int minus datetime, TypeError
    ELSE IF HasKey(data, "end") THEN "ServerError"
    ELSE "success"

\* the fields of the row that occupancy.save() writes back: classroom_id and
\* start are assigned to attributes that are no column (_class, last_name)
PutRow(o, data) ==
    IF HasKey(data, "name") THEN [o EXCEPT !.name = data["name"]] ELSE o

\* the name is written by an update of the whole table, not of the one row
OccupancyDetailPut_UpdateAll(id, data) ==
    /\ response' = PutOutcome(id, data)
    /\ IF PutOutcome(id, data) = "success"
       THEN occupancies' = [ i \in DOMAIN occupancies |-> PutRow(occupancies[i], data) ]
       ELSE UNCHANGED occupancies
    /\ UNCHANGED <<classrooms, subjects, subject_teachers, inflight>>

OccupancyDetailPut(id, data) ==
    /\ response' = PutOutcome(id, data)
    /\ IF PutOutcome(id, data) = "success"
       THEN occupancies' = [occupancies EXCEPT ![id] = PutRow(occupancies[id], data)]
       ELSE UNCHANGED occupancies
    /\ UNCHANGED <<classrooms, subjects, subject_teachers, inflight>>

-----------------------------------------------------------------------------
(* DELETE /occupancies/{id} *)

\* Occupancy.delete() of the model class: marks the row, keeps it
SoftDelete(occs, id) == [occs EXCEPT ![id].deleted = TRUE]

\* the row is removed from the table, as by a queryset delete
OccupancyDetailDelete_Hard(id) ==
    /\ IF OccupancyExists(id)
       THEN /\ occupancies' = SubSeq(occupancies, 1, id - 1)
                                \o SubSeq(occupancies, id + 1, Len(occupancies))
            /\ response' = "success"
       ELSE /\ UNCHANGED occupancies
            /\ response' = "InvalidID"
    /\ UNCHANGED <<classrooms, subjects, subject_teachers, inflight>>

\* delete() flips the flag instead of setting it
OccupancyDetailDelete_Toggle(id) ==
    /\ IF OccupancyExists(id)
       THEN /\ occupancies' = [occupancies EXCEPT ![id].deleted = ~@]
            /\ response' = "success"
       ELSE /\ UNCHANGED occupancies
            /\ response' = "InvalidID"
    /\ UNCHANGED <<classrooms, subjects, subject_teachers, inflight>>

OccupancyDetailDelete(id) ==
    /\ IF OccupancyExists(id)
       THEN /\ occupancies' = SoftDelete(occupancies, id)
            /\ response' = "success"
       ELSE /\ UNCHANGED occupancies
            /\ response' = "InvalidID"
    /\ UNCHANGED <<classrooms, subjects, subject_teachers, inflight>>

-----------------------------------------------------------------------------
(* POST /subjects/{id}/occupancies run by two workers: the lookups and the   *)
(* insert of OccupancyCreationSerializer.save are separate queries, and no   *)
(* transaction or lock spans them                                            *)

\* lines 269-280: both lookups, then the Occupancy object is built; seen is
\* the number of rows the table held when the worker read it
PostLookup(w, subject_id, data) ==
    /\ inflight[w] = Idle
    /\ IF CreateOutcome(subject_id, data) = "success"
       THEN /\ inflight' = [inflight EXCEPT ![w] =
                              [ idle |-> FALSE,
                                row  |-> NewOccupancy(data.classroom_id, subject_id, data),
                                seen |-> Len(occupancies) ]]
            /\ UNCHANGED response
       ELSE /\ response' = CreateOutcome(subject_id, data)
            /\ UNCHANGED inflight
    /\ UNCHANGED <<classrooms, subjects, subject_teachers, occupancies>>

\* line 281: occupancy.save()
PostSave(w) ==
    /\ inflight[w] # Idle
    /\ Len(occupancies) < MaxOccupancies
    /\ occupancies' = Append(occupancies, inflight[w].row)
    /\ inflight' = [inflight EXCEPT ![w] = Idle]
    /\ response' = "success"
    /\ UNCHANGED <<classrooms, subjects, subject_teachers>>

-----------------------------------------------------------------------------
(* DELETE /classrooms *)

\* Classroom.delete() of the model class refuses a classroom that occupancy
\* rows reference
ClassroomUsed(id, occs) == \E i \in DOMAIN occs : occs[i].classroom = id

\* the loop goes on after an id of no classroom and answers InvalidID at its end
RECURSIVE DeleteClassrooms_SkipMissing(_, _, _)
DeleteClassrooms_SkipMissing(ids, cs, occs) ==
    IF ids = <<>> THEN [classrooms |-> cs, code |-> "success"]
    ELSE IF Head(ids) \notin cs
         THEN [classrooms |-> DeleteClassrooms_SkipMissing(Tail(ids), cs, occs).classrooms,
               code |-> "InvalidID"]
    ELSE IF ClassroomUsed(Head(ids), occs)
         THEN [classrooms |-> cs, code |-> "ServerError"]
    ELSE DeleteClassrooms_SkipMissing(Tail(ids), cs \ {Head(ids)}, occs)

\* the loop over request.data: returns at the first id that fails, with the
\* ids before it deleted
RECURSIVE DeleteClassrooms(_, _, _)
DeleteClassrooms(ids, cs, occs) ==
    IF ids = <<>> THEN [classrooms |-> cs, code |-> "success"]
    ELSE IF Head(ids) \notin cs
         THEN [classrooms |-> cs, code |-> "InvalidID"]
    \* the refusal is an exception no except clause of the handler names
    ELSE IF ClassroomUsed(Head(ids), occs)
         THEN [classrooms |-> cs, code |-> "ServerError"]
    ELSE DeleteClassrooms(Tail(ids), cs \ {Head(ids)}, occs)

ClassroomDelete(ids) ==
    /\ classrooms' = DeleteClassrooms(ids, classrooms, occupancies).classrooms
    /\ response' = DeleteClassrooms(ids, classrooms, occupancies).code
    /\ UNCHANGED <<subjects, subject_teachers, occupancies, inflight>>

-----------------------------------------------------------------------------
(* DELETE /subjects/{id}/teachers *)

\* remove_teacher_from_subject without its two refusals: the row found is
\* deleted whatever the subject keeps
RECURSIVE RemoveTeachers_NoGuards(_, _, _)
RemoveTeachers_NoGuards(subject_id, ids, rows) ==
    IF ids = <<>> THEN [rows |-> rows, code |-> "success"]
    ELSE LET found == { r \in rows : r.subject = subject_id /\ r.teacher = Head(ids) }
         IN  IF found = {}
             THEN [rows |-> rows, code |-> "InvalidID"]
             ELSE IF Cardinality(found) > 1
             THEN [rows |-> rows, code |-> "ServerError"]
             ELSE RemoveTeachers_NoGuards(subject_id, Tail(ids), rows \ found)

\* remove_teacher_from_subject with the lookup of the row before the count
RECURSIVE RemoveTeachers_LookupFirst(_, _, _)
RemoveTeachers_LookupFirst(subject_id, ids, rows) ==
    IF ids = <<>> THEN [rows |-> rows, code |-> "success"]
    ELSE LET of_subject == { r \in rows : r.subject = subject_id }
             found == { r \in of_subject : r.teacher = Head(ids) }
         IN  IF found = {}
             THEN [rows |-> rows, code |-> "InvalidID"]
             ELSE IF Cardinality(found) > 1
             THEN [rows |-> rows, code |-> "ServerError"]
             ELSE IF Cardinality(of_subject) <= 1
             THEN [rows |-> rows, code |-> "TeacherInCharge"]
             ELSE IF \E r \in found : r.in_charge
             THEN [rows |-> rows, code |-> "TeacherInCharge"]
             ELSE RemoveTeachers_LookupFirst(subject_id, Tail(ids), rows \ found)

\* remove_teacher_from_subject for each id of request.data, returning at the
\* first that fails, with the ids before it removed
RECURSIVE RemoveTeachers(_, _, _)
RemoveTeachers(subject_id, ids, rows) ==
    IF ids = <<>> THEN [rows |-> rows, code |-> "success"]
    ELSE LET of_subject == { r \in rows : r.subject = subject_id }
             found == { r \in of_subject : r.teacher = Head(ids) }
         IN  IF Cardinality(of_subject) <= 1
             THEN [rows |-> rows, code |-> "TeacherInCharge"]
             ELSE IF found = {}
             THEN [rows |-> rows, code |-> "InvalidID"]
             \* get() on two rows: MultipleObjectsReturned, caught by nothing
             ELSE IF Cardinality(found) > 1
             THEN [rows |-> rows, code |-> "ServerError"]
             ELSE IF \E r \in found : r.in_charge
             THEN [rows |-> rows, code |-> "TeacherInCharge"]
             ELSE RemoveTeachers(subject_id, Tail(ids), rows \ found)

SubjectTeacherDelete(subject_id, ids) ==
    /\ subject_teachers' = RemoveTeachers(subject_id, ids, subject_teachers).rows
    /\ response' = RemoveTeachers(subject_id, ids, subject_teachers).code
    /\ UNCHANGED <<classrooms, subjects, occupancies, inflight>>

-----------------------------------------------------------------------------
(* POST /subjects, PUT /subjects/{id}, POST /subjects/{id}/teachers *)

\* the id the table gives to the next row saved
NextId(ids) == IF ids = {} THEN 1 ELSE 1 + (CHOOSE m \in ids : \A n \in ids : n <= m)

AssignmentIds(rows) == { r.id : r \in rows }

NewAssignment(rows, teacher_id, subject_id, in_charge) ==
    [ id |-> NextId(AssignmentIds(rows)), teacher |-> teacher_id,
      subject |-> subject_id, in_charge |-> in_charge ]

\* SubjectCreationSerializer.save behind SubjectViewSet.post: both lookups,
\* then the subject, then its assignment with in_charge = True
SubjectPost(data) ==
    IF data.class_id \notin ClassIds \/ data.teacher_in_charge_id \notin TeacherIds
    THEN /\ response' = "InvalidID"
         /\ UNCHANGED <<classrooms, subjects, subject_teachers, occupancies, inflight>>
    ELSE /\ NextId(DOMAIN subjects) <= MaxSubjects
         /\ NextId(AssignmentIds(subject_teachers)) <= MaxAssignments
         /\ subjects' = subjects @@ (NextId(DOMAIN subjects) :> data.class_id)
         /\ subject_teachers' = subject_teachers \cup
               { NewAssignment(subject_teachers, data.teacher_in_charge_id,
                               NextId(DOMAIN subjects), TRUE) }
         /\ response' = "success"
         /\ UNCHANGED <<classrooms, occupancies, inflight>>

\* the part of SubjectDetailViewSet.put under 'teacher_in_charge_id': the row
\* that was in charge is set to False on an object that is never saved; the
\* row of the new teacher is fetched or built, set to True and saved
ReassignInCharge(subject_id, teacher_id, rows) ==
    LET of_subject == { r \in rows : r.subject = subject_id }
        in_charge == { r \in of_subject : r.in_charge }
        found == { r \in of_subject : r.teacher = teacher_id }
    IN  IF teacher_id \notin TeacherIds THEN [rows |-> rows, code |-> "InvalidID"]
        \* get() on two rows: MultipleObjectsReturned, caught by nothing
        ELSE IF Cardinality(in_charge) > 1 \/ Cardinality(found) > 1
        THEN [rows |-> rows, code |-> "ServerError"]
        ELSE IF found = {}
        THEN [rows |-> rows \cup { NewAssignment(rows, teacher_id, subject_id, TRUE) },
              code |-> "success"]
        ELSE [rows |-> { IF r \in found THEN [r EXCEPT !.in_charge = TRUE] ELSE r
                           : r \in rows },
              code |-> "success"]

\* the response of SubjectDetailViewSet.put, in the order of its statements
SubjectPutOutcome(id, data) ==
    \* Subject.DoesNotExist is not Student.DoesNotExist: nothing catches it
    IF id \notin DOMAIN subjects THEN "ServerError"
    \* data['first_name'] under 'name' in data_keys: KeyError
    ELSE IF HasKey(data, "name") /\ ~HasKey(data, "first_name") THEN "ServerError"
    ELSE IF HasKey(data, "class_id") /\ data["class_id"] \notin ClassIds
         THEN "InvalidID"
    ELSE IF HasKey(data, "teacher_in_charge_id")
         THEN ReassignInCharge(id, data["teacher_in_charge_id"], subject_teachers).code
    ELSE "success"

SubjectDetailPut(id, data) ==
    /\ response' = SubjectPutOutcome(id, data)
    /\ IF SubjectPutOutcome(id, data) = "success"
       THEN /\ subjects' = IF HasKey(data, "class_id")
                           THEN [subjects EXCEPT ![id] = data["class_id"]]
                           ELSE subjects
            /\ IF HasKey(data, "teacher_in_charge_id")
               THEN /\ subject_teachers' =
                         ReassignInCharge(id, data["teacher_in_charge_id"],
                                          subject_teachers).rows
                    /\ \A r \in subject_teachers' : r.id <= MaxAssignments
               ELSE UNCHANGED subject_teachers
       ELSE UNCHANGED <<subjects, subject_teachers>>
    /\ UNCHANGED <<classrooms, occupancies, inflight>>

\* the loop of SubjectTeacherViewSet.post: one row per id of request.data,
\* saved without a look at the rows the subject has
RECURSIVE AddTeachers(_, _, _)
AddTeachers(subject_id, ids, rows) ==
    IF ids = <<>> THEN [rows |-> rows, code |-> "success"]
    \* a teacher_id of no teacher: IntegrityError at save(), caught by nothing
    ELSE IF Head(ids) \notin TeacherIds THEN [rows |-> rows, code |-> "ServerError"]
    ELSE AddTeachers(subject_id, Tail(ids),
                     rows \cup { NewAssignment(rows, Head(ids), subject_id, FALSE) })

SubjectTeacherPost(subject_id, ids) ==
    IF subject_id \notin DOMAIN subjects
    THEN /\ response' = "InvalidID"
         /\ UNCHANGED <<classrooms, subjects, subject_teachers, occupancies, inflight>>
    ELSE /\ subject_teachers' = AddTeachers(subject_id, ids, subject_teachers).rows
         /\ \A r \in subject_teachers' : r.id <= MaxAssignments
         /\ response' = AddTeachers(subject_id, ids, subject_teachers).code
         /\ UNCHANGED <<classrooms, subjects, occupancies, inflight>>

-----------------------------------------------------------------------------
(* GET /occupancies and GET /classrooms/{id}/occupancies *)

Absent == -1     \* a query parameter that is not given
NoFilter == 0    \* the listing of all classrooms

\* Trunc('start_datetime', 'day'), as the index of the day
Day(t) == t \div DayLength

\* the day of the month of a day, which start_datetime__day compares
DayOfMonth(day) == (day % DaysPerMonth) + 1

\* Occupancy.objects.filter(deleted=False), with classroom=classroom in the
\* listing of one classroom
\* the filter without deleted=False
BaseQuery_All(occs, classroom) ==
    { i \in DOMAIN occs : classroom = NoFilter \/ occs[i].classroom = classroom }

BaseQuery(occs, classroom) ==
    { i \in DOMAIN occs :
        /\ ~occs[i].deleted
        /\ (classroom = NoFilter \/ occs[i].classroom = classroom) }

\* order_by('start_datetime'): rows of equal start in id order
RECURSIVE OrderByStart(_, _)
OrderByStart(occs, ids) ==
    IF ids = {} THEN <<>>
    ELSE LET first == CHOOSE i \in ids : \A j \in ids :
                        \/ occs[i].start_datetime < occs[j].start_datetime
                        \/ (occs[i].start_datetime = occs[j].start_datetime /\ i <= j)
         IN  <<first>> \o OrderByStart(occs, ids \ {first})

\* the queryset occ after the two optional filters, as the ids in order
Query(occs, classroom, start_timestamp, end_timestamp) ==
    OrderByStart(occs,
        { i \in BaseQuery(occs, classroom) :
            /\ (start_timestamp # Absent => occs[i].start_datetime >= start_timestamp)
            /\ (end_timestamp # Absent => end_datetime(occs[i]) <= end_timestamp) })

\* occ.filter(start_datetime__day=day.day)
DayOccupancies(occs, q, day) ==
    SelectSeq(q, LAMBDA i : DayOfMonth(Day(occs[i].start_datetime)) = DayOfMonth(day))

\* day_occupancies[:nb_per_day] when nb_per_day is not 0
Capped(list, nb_per_day) ==
    IF nb_per_day # 0 /\ nb_per_day < Len(list) THEN SubSeq(list, 1, nb_per_day)
    ELSE list

\* the loop over the days first.day .. first.day + (last.day - first.day) + 1
RECURSIVE Buckets(_, _, _, _, _)
Buckets(occs, q, day, last_day, nb_per_day) ==
    IF day > last_day THEN <<>>
    ELSE LET list == Capped(DayOccupancies(occs, q, day), nb_per_day)
         IN  (IF list = <<>> THEN <<>>
              ELSE << [date |-> day, occupancies |-> list] >>)
             \o Buckets(occs, q, day + 1, last_day, nb_per_day)

\* get_days and the response built from it
Listing(occs, classroom, start_timestamp, end_timestamp, nb_per_day) ==
    LET q == Query(occs, classroom, start_timestamp, end_timestamp)
    IN  \* occ[0] of an empty queryset: IndexError, caught by nothing
        IF q = <<>> THEN [code |-> "ServerError", days |-> <<>>]
        ELSE LET days == Buckets(occs, q, Day(occs[q[1]].start_datetime),
                                 Day(occs[q[Len(q)]].start_datetime) + 1, nb_per_day)
             IN  \* o.subject.name of a row without subject, o.teacher.first_name
                 \* of a row without teacher: AttributeError, which the handler
                 \* answers with InvalidCredentials
                 IF \E b \in DOMAIN days : \E k \in DOMAIN days[b].occupancies :
                        \/ occs[days[b].occupancies[k]].subject = NoSubject
                        \/ occs[days[b].occupancies[k]].teacher = NoTeacher
                 THEN [code |-> "InvalidCredentials", days |-> <<>>]
                 ELSE [code |-> "success", days |-> days]

\* the event dict built for a listed row, without the names looked up
\* through its subject and teacher
Event(occs, i) ==
    [ id             |-> i,
      start          |-> occs[i].start_datetime,
      end            |-> end_datetime(occs[i]),
      occupancy_type |-> occs[i].occupancy_type,
      name           |-> occs[i].name,
      classroom      |-> occs[i].classroom ]

OccupancyGet(start_timestamp, end_timestamp, nb_per_day) ==
    /\ response' = Listing(occupancies, NoFilter, start_timestamp, end_timestamp,
                           nb_per_day).code
    /\ UNCHANGED <<classrooms, subjects, subject_teachers, occupancies, inflight>>

ClassroomOccupancyGet(classroom_id, start_timestamp, end_timestamp, nb_per_day) ==
    /\ response' = IF classroom_id \notin classrooms THEN "InvalidID"
                   ELSE Listing(occupancies, classroom_id, start_timestamp,
                                end_timestamp, nb_per_day).code
    /\ UNCHANGED <<classrooms, subjects, subject_teachers, occupancies, inflight>>

\* GET /subjects/{id}/occupancies: get_occupancies returns an empty dict
\* whatever is stored; Subject.DoesNotExist is not Student.DoesNotExist
SubjectListing(occs, subject_id) ==
    IF subject_id \notin DOMAIN subjects THEN [code |-> "ServerError", days |-> <<>>]
    ELSE [code |-> "success", days |-> <<>>]

SubjectOccupancyGet(subject_id, start_timestamp, end_timestamp, nb_per_day) ==
    /\ response' = SubjectListing(occupancies, subject_id).code
    /\ UNCHANGED <<classrooms, subjects, subject_teachers, occupancies, inflight>>

\* POST /subjects/{id}/groups/{id}/occupancies: the body of the handler is
\* pass, it returns no response
SubjectGroupOccupancyPost(subject_id, group_id, data) ==
    /\ response' = "ServerError"
    /\ UNCHANGED <<classrooms, subjects, subject_teachers, occupancies, inflight>>

\* the loop of DELETE /subjects over request.data, on the ids of the subjects:
\* returns at the first id of no subject, with the ids before it deleted
RECURSIVE DeleteSubjects(_, _)
DeleteSubjects(ids, subs) ==
    IF ids = <<>> THEN [subjects |-> subs, code |-> "success"]
    ELSE IF Head(ids) \notin subs THEN [subjects |-> subs, code |-> "InvalidID"]
    ELSE DeleteSubjects(Tail(ids), subs \ {Head(ids)})

-----------------------------------------------------------------------------
(* Initial state and the occupancy lifecycle *)

Init ==
    /\ classrooms = ClassroomIds
    /\ subjects = (1 :> 1) @@ (2 :> 2)
    /\ subject_teachers =
         { [id |-> 1, teacher |-> 1, subject |-> 1, in_charge |-> TRUE],
           [id |-> 2, teacher |-> 2, subject |-> 1, in_charge |-> FALSE],
           [id |-> 3, teacher |-> 3, subject |-> 1, in_charge |-> FALSE],
           [id |-> 4, teacher |-> 1, subject |-> 2, in_charge |-> TRUE] }
    /\ occupancies = <<>>
    /\ inflight = [w \in Workers |-> Idle]
    /\ response = "none"

CreationRequests ==
    [ classroom_id : RequestClassroomIds, start : Timestamps, end : Timestamps,
      name : {"n1"}, occupancy_type : {"cm"} ]

\* request bodies of PUT: any subset of the four keys
Patch(keys) ==
    [ k \in keys |-> CASE k = "classroom_id" -> 0
                       [] k = "start" -> 1
                       [] k = "end" -> 2
                       [] k = "name" -> "n2" ]

UpdateRequests ==
    { Patch(keys) : keys \in SUBSET {"classroom_id", "start", "end", "name"} }
    \cup { [classroom_id |-> c] : c \in ClassroomIds }
    \cup { [classroom_id |-> c, name |-> n] : c \in ClassroomIds, n \in Names }
    \cup { [name |-> "n1"] }

Next ==
    \/ \E s \in RequestSubjectIds, d \in CreationRequests : SubjectOccupancyPost(s, d)
    \/ \E id \in RequestOccupancyIds, d \in UpdateRequests : OccupancyDetailPut(id, d)
    \/ \E id \in RequestOccupancyIds : OccupancyDetailDelete(id)

Spec == Init /\ [][Next]_vars

-----------------------------------------------------------------------------
(* Every handler that writes, and the listings, on a narrower set of requests *)

StoreCreationRequests ==
    [ classroom_id : {0, 1}, start : {0, 1}, end : {2},
      name : {"n1"}, occupancy_type : {"cm"} ]

StoreUpdateRequests ==
    { Patch({}), Patch({"name"}), Patch({"end"}), Patch({"classroom_id"}),
      Patch({"start"}), [classroom_id |-> 1] }

\* bodies of the batch requests: arrays of ids
BatchesOf(ids) == UNION { [1..n -> ids] : n \in 0..MaxBatch }

QueryBounds == {Absent} \cup Timestamps

NextStore ==
    \/ \E s \in {0, 1}, d \in StoreCreationRequests : SubjectOccupancyPost(s, d)
    \/ \E id \in RequestOccupancyIds, d \in StoreUpdateRequests : OccupancyDetailPut(id, d)
    \/ \E id \in RequestOccupancyIds : OccupancyDetailDelete(id)
    \/ \E ids \in BatchesOf(ClassroomIds) : ClassroomDelete(ids)
    \/ \E s \in SubjectIds, ids \in BatchesOf(TeacherIds) : SubjectTeacherDelete(s, ids)
    \/ \E b, e \in {Absent, 1} : OccupancyGet(b, e, 0)
    \/ \E c \in {0, 1}, b, e \in {Absent, 1} : ClassroomOccupancyGet(c, b, e, 0)

SpecStore == Init /\ [][NextStore]_vars

-----------------------------------------------------------------------------
(* Two workers creating occupancies at the same time *)

ConcCreationRequests ==
    [ classroom_id : {0, 1}, start : {0, 1}, end : {1, 2},
      name : {"n1"}, occupancy_type : {"cm"} ]

NextConc ==
    \/ \E w \in Workers, s \in {0, 1}, d \in ConcCreationRequests : PostLookup(w, s, d)
    \/ \E w \in Workers : PostSave(w)
    \/ \E id \in RequestOccupancyIds : OccupancyDetailDelete(id)

SpecConc == Init /\ [][NextConc]_vars

-----------------------------------------------------------------------------
(* Subjects and their teachers *)

SubjectCreationRequests ==
    [ class_id : {0, 1}, teacher_in_charge_id : {0, 1, 2} ]

SubjectPatch(keys, class_id, teacher_id) ==
    [ k \in keys |-> CASE k = "name" -> "n2"
                       [] k = "first_name" -> "n2"
                       [] k = "class_id" -> class_id
                       [] k = "teacher_in_charge_id" -> teacher_id ]

SubjectUpdateRequests ==
    { SubjectPatch({"name"}, 0, 0), SubjectPatch({"name", "first_name"}, 0, 0) }
    \cup { SubjectPatch({"class_id"}, c, 0) : c \in RequestClassIds }
    \cup { SubjectPatch({"teacher_in_charge_id"}, 0, t) : t \in RequestTeacherIds }

NextTeachers ==
    \/ \E d \in SubjectCreationRequests : SubjectPost(d)
    \/ \E s \in RequestSubjectIds, d \in SubjectUpdateRequests : SubjectDetailPut(s, d)
    \/ \E s \in RequestSubjectIds, ids \in BatchesOf({0, 2}) : SubjectTeacherPost(s, ids)
    \/ \E s \in 1..MaxSubjects, ids \in BatchesOf(TeacherIds) :
          SubjectTeacherDelete(s, ids)

SpecTeachers == Init /\ [][NextTeachers]_vars

-----------------------------------------------------------------------------
(* The listings and the creation handlers over the tables the store may    *)
(* hold: rows saved by the creation handler, and rows that come from       *)
(* outside these handlers, which may have a teacher and may have no subject *)

StoredStarts == {0, 1, 2, 4}
OccupancyTypes == {"cm", "td"}

StoredRows ==
    [ classroom : ClassroomIds, subject : {NoSubject, 1}, teacher : {NoTeacher, 1},
      group_number : {NoGroup}, start_datetime : StoredStarts, duration : {1},
      name : {"n1"}, occupancy_type : OccupancyTypes, deleted : BOOLEAN ]

InitTables ==
    /\ classrooms = ClassroomIds
    /\ subjects = (1 :> 1) @@ (2 :> 2)
    /\ subject_teachers =
         { [id |-> 1, teacher |-> 1, subject |-> 1, in_charge |-> TRUE],
           [id |-> 2, teacher |-> 1, subject |-> 2, in_charge |-> TRUE] }
    /\ occupancies \in UNION { [1..n -> StoredRows] : n \in 0..MaxOccupancies }
    /\ inflight = [w \in Workers |-> Idle]
    /\ response = "none"

TypedCreationRequests ==
    [ classroom_id : {0, 1}, start : {0}, end : {1},
      name : {"n1"}, occupancy_type : OccupancyTypes ]

ListingBounds == {Absent, 1, 2}

NextTables ==
    \/ \E s \in {0, 1}, d \in TypedCreationRequests : SubjectOccupancyPost(s, d)
    \/ \E s \in {0, 1}, d \in TypedCreationRequests : SubjectGroupOccupancyPost(s, 1, d)
    \/ \E b, e \in ListingBounds, n \in {0, 1} : OccupancyGet(b, e, n)
    \/ \E c \in {0, 1}, b, e \in ListingBounds, n \in {0, 1} :
          ClassroomOccupancyGet(c, b, e, n)
    \/ \E s \in {0, 1}, b, e \in ListingBounds, n \in {0, 1} :
          SubjectOccupancyGet(s, b, e, n)

SpecTables == InitTables /\ [][NextTables]_vars

-----------------------------------------------------------------------------
(* The conflict rules the occupancies are held to *)

\* the half-open intervals [start, start + duration) of a and b intersect
Overlaps(a_start, a_end, b_start, b_end) == a_start < b_end /\ b_start < a_end

RowsOverlap(a, b) ==
    Overlaps(a.start_datetime, end_datetime(a), b.start_datetime, end_datetime(b))

\* group 0/none is the whole class: it conflicts with every group
GroupsConflict(g, h) == g = NoGroup \/ h = NoGroup \/ g = h

SameClass(a, b) ==
    /\ a.subject \in DOMAIN subjects
    /\ b.subject \in DOMAIN subjects
    /\ subjects[a.subject] = subjects[b.subject]

Live == { i \in OccupancyIds : ~occupancies[i].deleted }

\* the stored rows a draft row collides with, per kind of resource
ClassroomClash(o) ==
    \E i \in Live : occupancies[i].classroom = o.classroom /\ RowsOverlap(occupancies[i], o)

GroupClash(o) ==
    \E i \in Live : /\ SameClass(occupancies[i], o)
                    /\ GroupsConflict(occupancies[i].group_number, o.group_number)
                    /\ RowsOverlap(occupancies[i], o)

TeacherClash(o) ==
    \E i \in Live : /\ o.teacher # NoTeacher
                    /\ occupancies[i].teacher = o.teacher
                    /\ RowsOverlap(occupancies[i], o)

\* the failures of a draft row, in the order the check is to report them
Failures(o) ==
    SelectSeq(<<"EndBeforeStart", "ClassroomAlreadyOccupied",
                "ClassOrGroupAlreadyOccupied", "TeacherAlreadyOccupied">>,
              LAMBDA f : CASE f = "EndBeforeStart" -> o.duration <= 0
                           [] f = "ClassroomAlreadyOccupied" -> ClassroomClash(o)
                           [] f = "ClassOrGroupAlreadyOccupied" -> GroupClash(o)
                           [] f = "TeacherAlreadyOccupied" -> TeacherClash(o))

\* a creation request that passes both lookups of the serializer
Accepted(s, d) == CreateOutcome(s, d) = "success"

-----------------------------------------------------------------------------
(* Claims on the occupancy lifecycle, under Spec *)

-----------------------------------------------------------------------------
(* Claim on concurrent creation, under SpecConc *)

-----------------------------------------------------------------------------
(* Claims on rejected requests and on soft deletion, under SpecStore *)

Range(f) == { f[x] : x \in DOMAIN f }

DocumentedErrors ==
    { "InvalidID", "EndBeforeStart", "ClassroomAlreadyOccupied",
      "ClassOrGroupAlreadyOccupied", "TeacherAlreadyOccupied",
      "TeacherInCharge", "ClassroomUsed" }

-----------------------------------------------------------------------------
(* Claim on repeated deletion, under SpecStore *)

-----------------------------------------------------------------------------
(* Claims on the teachers of a subject, under SpecTeachers *)

TeachersOf(rows, s) == { r \in rows : r.subject = s }

\* C12: each subject has at most one teacher assignment with in_charge = true.
AtMostOneInCharge ==
    \A s \in DOMAIN subjects :
        Cardinality({ r \in TeachersOf(subject_teachers, s) : r.in_charge }) <= 1

\* C13: a subject that has a teacher assignment has one after every request,
\* batch removals included.
EverySubjectKeepsATeacher ==
    [][ \A s \in 1..MaxSubjects :
          TeachersOf(subject_teachers, s) # {}
            => TeachersOf(subject_teachers', s) # {} ]_vars

\* removals have left subject 1, which had three teachers, with one, and the
\* last request was answered with success
OneTeacherLeft ==
    /\ Cardinality(TeachersOf(subject_teachers, 1)) = 1
    /\ response = "success"

\* C14: removing the teacher whose assignment is in charge is refused with
\* TeacherInCharge and the assignment stays; removing a teacher who is not in
\* charge from a subject with at least two assignments succeeds and removes
\* exactly that assignment.
InChargeKeptOthersRemoved ==
    [][ \A s \in SubjectIds, t \in TeacherIds :
          SubjectTeacherDelete(s, <<t>>) =>
            LET mine == { r \in TeachersOf(subject_teachers, s) : r.teacher = t }
            IN  /\ (\E r \in mine : r.in_charge)
                      => (/\ response' = "TeacherInCharge"
                          /\ UNCHANGED subject_teachers)
                /\ (/\ mine # {}
                    /\ \A r \in mine : ~r.in_charge
                    /\ Cardinality(TeachersOf(subject_teachers, s)) >= 2)
                      => (/\ response' = "success"
                          /\ subject_teachers' \subseteq subject_teachers
                          /\ Cardinality(subject_teachers \ subject_teachers') = 1
                          /\ TeachersOf(subject_teachers', s)
                               = TeachersOf(subject_teachers, s) \ mine) ]_vars

\* C15: a removal request on a subject with exactly one teacher assignment is
\* refused with TeacherInCharge, the insufficient-teachers error, and not with
\* InvalidID, whatever the teacher ids it names, assigned or not, and removes
\* nothing.
OnlyTeacherRemovalRefused ==
    \A s \in DOMAIN subjects, ids \in BatchesOf(RequestTeacherIds) :
        (ids # <<>> /\ Cardinality(TeachersOf(subject_teachers, s)) = 1)
          => RemoveTeachers(s, ids, subject_teachers)
               = [rows |-> subject_teachers, code |-> "TeacherInCharge"]

\* every subject is down to one teacher and the last removal was refused
RefusedOnOnlyTeacher ==
    /\ response = "TeacherInCharge"
    /\ \A s \in DOMAIN subjects :
          Cardinality(TeachersOf(subject_teachers, s)) = 1

-----------------------------------------------------------------------------
(* Claim on the deletion of classrooms, under SpecStore *)

\* C16: deleting a classroom that a non-deleted occupancy references is
\* refused with ClassroomUsed and the classroom stays, no non-deleted
\* occupancy references a classroom that is gone, and a classroom that no
\* occupancy references is deleted.
UsedClassroomKept ==
    [][ \A c \in ClassroomIds :
          (ClassroomDelete(<<c>>) /\ c \in classrooms) =>
            /\ (\E i \in Live : occupancies[i].classroom = c)
                  => (response' = "ClassroomUsed" /\ c \in classrooms')
            /\ (\A i \in OccupancyIds : occupancies[i].classroom # c)
                  => (response' = "success" /\ c \notin classrooms')
            /\ \A i \in Live : occupancies[i].classroom \in classrooms' ]_vars

-----------------------------------------------------------------------------
(* Claim on what an update leaves alone, under SpecStore *)

\* C17: an update leaves the subject, teacher, group_number, occupancy_type
\* and deleted flag of its occupancy, and every other occupancy, unchanged.
UpdateFrame ==
    \* a step that leaves the table as it was changes no field of it
    [][ occupancies' # occupancies =>
          \A id \in RequestOccupancyIds, d \in UpdateRequests :
            OccupancyDetailPut(id, d) =>
              /\ DOMAIN occupancies' = DOMAIN occupancies
              /\ \A j \in OccupancyIds :
                    /\ j # id => occupancies'[j] = occupancies[j]
                    /\ occupancies'[j].subject = occupancies[j].subject
                    /\ occupancies'[j].teacher = occupancies[j].teacher
                    /\ occupancies'[j].group_number = occupancies[j].group_number
                    /\ occupancies'[j].occupancy_type = occupancies[j].occupancy_type
                    /\ occupancies'[j].deleted = occupancies[j].deleted ]_vars

\* an update was answered with success and renamed one of two rows
RenamedBesideOther ==
    /\ response = "success"
    /\ \E i, j \in OccupancyIds :
          occupancies[i].name = "n2" /\ occupancies[j].name = "n1"

-----------------------------------------------------------------------------
(* Claims on the update of an occupancy, under Spec *)

\* C18: after an update answered with success, every field present in the
\* patch is applied: the occupancy references classroom_id, starts at start,
\* has start + duration = end and has the name.
UpdateAppliesPatch ==
    [][ \A id \in OccupancyIds, d \in UpdateRequests :
          (OccupancyDetailPut(id, d) /\ response' = "success") =>
            /\ HasKey(d, "classroom_id")
                  => occupancies'[id].classroom = d["classroom_id"]
            /\ HasKey(d, "start") => occupancies'[id].start_datetime = d["start"]
            /\ HasKey(d, "end") => end_datetime(occupancies'[id]) = d["end"]
            /\ HasKey(d, "name") => occupancies'[id].name = d["name"] ]_vars

\* C19: an update with the id of no occupancy, or with the classroom_id of
\* no classroom, is answered with InvalidID and changes nothing in the store.
UpdateUnknownIdsRefused ==
    [][ \A id \in RequestOccupancyIds, d \in UpdateRequests :
          (/\ OccupancyDetailPut(id, d)
           /\ \/ ~OccupancyExists(id)
              \/ (HasKey(d, "classroom_id") /\ d["classroom_id"] \notin classrooms))
            => (response' = "InvalidID" /\ UNCHANGED store) ]_vars

\* the listing of all occupancies, without bounds or cap, holds row i with
\* the event e
Listed(occs, i, e) ==
    LET l == Listing(occs, NoFilter, Absent, Absent, 0)
    IN  /\ l.code = "success"
        /\ \E k \in DOMAIN l.days : i \in Range(l.days[k].occupancies)
        /\ Event(occs, i) = e

-----------------------------------------------------------------------------
(* Claims on creation by type and on the listings, under SpecTables *)

InBuckets(l, i) == \E k \in DOMAIN l.days : i \in Range(l.days[k].occupancies)

\* the rows a listing is to return: not deleted and within the given bounds
Matching(occs, b, e) ==
    { i \in DOMAIN occs :
        /\ ~occs[i].deleted
        /\ (b # Absent => occs[i].start_datetime >= b)
        /\ (e # Absent => end_datetime(occs[i]) <= e) }

\* the listings of all occupancies and of the occupancies of a classroom
\* that a step may be, with the rows each is to return
ListingsOf(b, e, n) ==
    { [ step   |-> OccupancyGet(b, e, n),
        result |-> Listing(occupancies, NoFilter, b, e, n),
        rows   |-> Matching(occupancies, b, e) ] }
    \cup { [ step   |-> ClassroomOccupancyGet(c, b, e, n),
             result |-> Listing(occupancies, c, b, e, n),
             rows   |-> { i \in Matching(occupancies, b, e) :
                            occupancies[i].classroom = c } ] : c \in classrooms }

\* C22: with no per-day cap, a listing returns an occupancy if and only if it
\* is not deleted, is of the given classroom or subject when one is given,
\* starts at or after the start bound and ends at or before the end bound
\* when they are given; stated for the listings of all occupancies and of a
\* classroom on rows that all have a subject and a teacher.
ListingReturnsMatching ==
    [][ \A b, e \in ListingBounds :
          /\ \A l \in ListingsOf(b, e, 0) :
                (/\ l.step
                 /\ \A i \in l.rows : /\ occupancies[i].subject # NoSubject
                                      /\ occupancies[i].teacher # NoTeacher)
                  => \A i \in OccupancyIds : InBuckets(l.result, i) <=> i \in l.rows
          /\ \A s \in DOMAIN subjects :
                SubjectOccupancyGet(s, b, e, 0) =>
                  \A i \in OccupancyIds :
                      InBuckets(SubjectListing(occupancies, s), i)
                        <=> (i \in Matching(occupancies, b, e)
                               /\ occupancies[i].subject = s) ]_vars

\* C23: a listing result has one bucket for each calendar day on which a
\* matching occupancy starts and no other bucket, a bucket holds only
\* occupancies that start on its date, and no occupancy is in two buckets,
\* also when the occupancies span more than one month.
BucketPerDay ==
    [][ \A b, e \in ListingBounds : \A l \in ListingsOf(b, e, 0) :
          (l.step /\ l.result.code = "success") =>
            LET days == l.result.days
            IN  /\ { days[k].date : k \in DOMAIN days }
                     = { Day(occupancies[i].start_datetime) : i \in l.rows }
                /\ \A k, m \in DOMAIN days : days[k].date = days[m].date => k = m
                /\ \A k \in DOMAIN days : \A i \in Range(days[k].occupancies) :
                      Day(occupancies[i].start_datetime) = days[k].date
                /\ \A k, m \in DOMAIN days :
                      k # m => Range(days[k].occupancies)
                                 \cap Range(days[m].occupancies) = {} ]_vars

\* the rows of one day in ascending start order, rows of equal start by id
OfDay(rows, day) ==
    OrderByStart(occupancies,
                 { i \in rows : Day(occupancies[i].start_datetime) = day })

\* C24: in a listing result the buckets are in ascending date order, the
\* occupancies of a bucket in ascending start order, and with a cap k > 0 a
\* bucket holds the k earliest occupancies of its day, all of them when
\* there are fewer, and with the cap 0 all the occupancies of its day.
OrderedAndCapped ==
    [][ \A b, e \in ListingBounds, n \in {0, 1} : \A l \in ListingsOf(b, e, n) :
          (l.step /\ l.result.code = "success") =>
            LET days == l.result.days
            IN  /\ \A k, m \in DOMAIN days : k < m => days[k].date < days[m].date
                /\ \A k \in DOMAIN days :
                      /\ \A x, y \in DOMAIN days[k].occupancies :
                            x < y =>
                              occupancies[days[k].occupancies[x]].start_datetime
                                <= occupancies[days[k].occupancies[y]].start_datetime
                      /\ days[k].occupancies
                           = Capped(OfDay(l.rows, days[k].date), n) ]_vars

\* C25: a listing whose filtered set of occupancies is empty is answered
\* with success and an empty list of buckets, not with an error.
EmptyListingSucceeds ==
    [][ \A b, e \in ListingBounds, n \in {0, 1} : \A l \in ListingsOf(b, e, n) :
          (l.step /\ l.rows = {}) =>
            (response' = "success" /\ l.result.days = <<>>) ]_vars

\* C27: a listing over a set that holds a non-deleted occupancy without
\* subject, every row of the set having a teacher, succeeds and has that
\* occupancy in a bucket.
StandaloneListed ==
    [][ \A b, e \in ListingBounds : \A l \in ListingsOf(b, e, 0) :
          (/\ l.step
           /\ \A i \in l.rows : occupancies[i].teacher # NoTeacher
           /\ \E i \in l.rows : occupancies[i].subject = NoSubject)
            => /\ response' = "success"
               /\ \A i \in l.rows :
                     occupancies[i].subject = NoSubject => InBuckets(l.result, i) ]_vars

-----------------------------------------------------------------------------
(* Claims on batch deletion and on creation with unknown ids, under SpecStore *)

\* the first k - 1 ids of a batch are distinct ids of set that can be
\* deleted, and the k-th is the id of nothing in set, or a repeat of one
FirstMissingAt(ids, k, set, deletable(_)) ==
    /\ k \in DOMAIN ids
    /\ \A n \in 1..(k - 1) :
          /\ ids[n] \in set
          /\ deletable(ids[n])
          /\ \A m \in 1..(n - 1) : ids[m] # ids[n]
    /\ (ids[k] \notin set \/ \E m \in 1..(k - 1) : ids[m] = ids[k])

-----------------------------------------------------------------------------
(* Claims on the assignments a subject gets, under SpecTeachers *)

\* C29: there is at most one teacher assignment per teacher and subject.
OneAssignmentPerPair ==
    \A r, q \in subject_teachers :
        (r.teacher = q.teacher /\ r.subject = q.subject) => r = q

\* C30: a subject update whose teacher_in_charge_id names a teacher who is
\* not assigned to the subject creates no teacher assignment.
InChargeOnlyIfAssigned ==
    [][ subject_teachers' # subject_teachers =>
          \A s \in DOMAIN subjects, t \in RequestTeacherIds :
            (/\ SubjectDetailPut(s, SubjectPatch({"teacher_in_charge_id"}, 0, t))
             /\ \A r \in TeachersOf(subject_teachers, s) : r.teacher # t)
              => subject_teachers' = subject_teachers ]_vars

====
